---------------------------- MODULE Spec2Model ----------------------------
(* A model of isvc.py (class ISVC): the concurrent scan of                 *)
(* run_comprehensive_scan (thread pool of probe tasks, background sampler  *)
(* thread, sampler hand-off, report) and the health aggregator             *)
(* calculate_comprehensive_system_health.                                  *)
(*                                                                         *)
(* Python dicts are functions with a finite domain of strings, lists are   *)
(* sequences.  Scores are integers; the composite score, a float in the    *)
(* code, is kept as the exact fraction num/den.                            *)
EXTENDS Integers, Sequences, FiniteSets, TLC

VARIABLES
    now,                    \* wall clock, in seconds (time.time())
    pc,                     \* position of the main thread
    taskState,              \* per probe task: the state of its future
    startedAt,              \* per running probe task: when a worker started it
    probe,                  \* per probe task: what its function does in this scan
    results,                \* self.results
    completed_tasks,        \* completed_tasks of run_comprehensive_scan
    deadline,               \* end_time of as_completed(..., timeout=720)
    schedEnd,               \* clock value at which the with-block was left
    continuous_monitoring,  \* self.continuous_monitoring
    spc,                    \* position of the sampler thread
    sEndTime,               \* end_time of continuous_monitoring_thread
    sleepUntil,             \* when the sampler's time.sleep returns
    smetric,                \* index of the metric the sampler tick is probing
    stimestamp,             \* timestamp of the sampler tick in progress
    sticks,                 \* sampler ticks started
    device,                 \* what the device answers to each sampler command
    monitoring_data,        \* self.monitoring_data
    data_points_collected,  \* self.data_points_collected
    joinDeadline,           \* when monitoring_thread.join(timeout=30) gives up
    readSeries,             \* what analyze_monitoring_data has read, or NotRead
    health                  \* result of calculate_comprehensive_system_health

vars == << now, pc, taskState, startedAt, probe, results, completed_tasks,
           deadline, schedEnd, continuous_monitoring, spc, sEndTime, sleepUntil, smetric,
           stimestamp, sticks, device, monitoring_data, data_points_collected,
           joinDeadline, readSeries, health >>

-----------------------------------------------------------------------------
(* Dicts and lists *)

EmptyDict == [k \in {} |-> 0]

Get(d, k, dflt) == IF k \in DOMAIN d THEN d[k] ELSE dflt

Put(d, k, v) == [x \in (DOMAIN d) \cup {k} |-> IF x = k THEN v ELSE d[x]]

RECURSIVE SumSeq(_)
SumSeq(s) == IF s = <<>> THEN 0 ELSE Head(s) + SumSeq(Tail(s))

RECURSIVE Concat(_)
Concat(ss) == IF ss = <<>> THEN <<>> ELSE Head(ss) \o Concat(Tail(ss))

Max0(n) == IF n < 0 THEN 0 ELSE n

Range(seq) == { seq[i] : i \in DOMAIN seq }

Digits == <<"0", "1", "2", "3", "4", "5", "6", "7", "8", "9">>

RECURSIVE IntStr(_)
IntStr(n) == IF n < 10 THEN Digits[n + 1]
             ELSE IntStr(n \div 10) \o Digits[(n % 10) + 1]

-----------------------------------------------------------------------------
(* The registered probe tasks *)

analysis_tasks ==
    << "battery", "performance", "hardware", "software", "security",
       "network", "stress_test" >>

TaskNames == { analysis_tasks[i] : i \in DOMAIN analysis_tasks }

max_workers == 4

OverallTimeout == 720

TaskTimeout == 180

ErrorRecord(msg) == [error |-> msg, partial_data |-> TRUE]

IsErrorRecord(v) == "error" \in DOMAIN v

(* bounds of the clock *)
ClockStep == 240

MaxTime == 960

(* What a probe function does when a worker runs it: after `duration`     *)
(* seconds it returns or raises, or it never comes back.                   *)
Behaviour(outcome, duration) == [outcome |-> outcome, duration |-> duration]

Nominal == Behaviour("return", 0)

Durations == {0, ClockStep, MaxTime}

Behaviours ==
    { Behaviour(o, d) : o \in {"return", "raise"}, d \in Durations }
    \cup { Behaviour("hang", 0) }

FirstWorkers == { analysis_tasks[i] : i \in 1..max_workers }

(* one task that gets a worker at once, one that waits in the queue *)
DeviatingTasks == { analysis_tasks[1], analysis_tasks[max_workers + 1] }

(* the scans checked: every probe returns at once; one probe deviates in   *)
(* any way; the probes that fill the pool all take the same long time      *)
ProbeScenarios ==
    { [t \in TaskNames |-> IF t = dev THEN b ELSE Nominal] :
        dev \in DeviatingTasks, b \in Behaviours }
    \cup
    { [t \in TaskNames |-> IF t \in FirstWorkers THEN b ELSE Nominal] :
        b \in { x \in Behaviours : x.outcome # "raise" } }

(* Health aggregator: calculate_comprehensive_system_health *)

Subsystems ==
    { "battery", "performance", "security", "software", "network",
      "storage", "stability" }

(* max_scores: the fixed table of the seven subsystems *)
max_scores_missing_one == [k \in Subsystems \ {"stability"} |-> 100]

max_scores == [k \in Subsystems |-> 100]

RECURSIVE SumOver(_, _)
SumOver(f, keys) ==
    IF keys = {} THEN 0
    ELSE LET k == CHOOSE x \in keys : TRUE
         IN f[k] + SumOver(f, keys \ {k})

SumValues(f) == SumOver(f, DOMAIN f)

(* What one subsystem block adds: its score and the entries it appends *)
Part(score, ci, w, r, cf) ==
    [score |-> score, critical_issues |-> ci, warnings |-> w,
     recommendations |-> r, critical_findings |-> cf]

NoPart == Part(0, <<>>, <<>>, <<>>, <<>>)

BatteryPart(res) ==
    IF "battery" \in DOMAIN res
    THEN LET battery_health == Get(res["battery"], "health_analysis", EmptyDict)
             health_score == Get(battery_health, "overall_health_score", 50)
         IN IF health_score < 40
            THEN Part(health_score, <<>>, <<>>,
                      <<"Immediate battery replacement recommended">>,
                      <<"Battery health critically degraded">>)
            ELSE IF health_score < 70
            THEN Part(health_score, <<>>, <<"Battery showing signs of wear">>,
                      <<"Monitor battery performance closely">>, <<>>)
            ELSE Part(health_score, <<>>, <<>>, <<>>, <<>>)
    ELSE NoPart

(* a performance score that starts at the subsystem's maximum *)
PerformancePart_from100(res) ==
    IF "performance" \in DOMAIN res
    THEN LET memory_analysis == Get(res["performance"], "memory_analysis", EmptyDict)
             thermal_summary == Get(res["performance"], "thermal_summary", EmptyDict)
             usage == Get(memory_analysis, "usage_percent", 0)
             max_temp == Get(thermal_summary, "max_temp", 0)
             avg_cpu_util == Get(res["performance"], "avg_cpu_utilization", 0)
             mem == IF usage > 90
                    THEN Part(25, <<"Critical memory usage detected">>, <<>>,
                              <<"Close unnecessary applications to free memory">>, <<>>)
                    ELSE IF usage > 80
                    THEN Part(10, <<>>, <<"High memory usage">>, <<>>, <<>>)
                    ELSE NoPart
             temp == IF max_temp > 50
                     THEN Part(20, <<"Device overheating detected">>, <<>>,
                               <<"Allow device to cool down immediately">>, <<>>)
                     ELSE IF max_temp > 45
                     THEN Part(10, <<>>, <<"Device running warm">>, <<>>, <<>>)
                     ELSE NoPart
             cpu == IF avg_cpu_util > 90
                    THEN Part(15, <<>>, <<"High CPU utilization">>, <<>>, <<>>)
                    ELSE NoPart
         IN Part(Max0(100 - mem.score - temp.score - cpu.score),
                 mem.critical_issues \o temp.critical_issues \o cpu.critical_issues,
                 mem.warnings \o temp.warnings \o cpu.warnings,
                 mem.recommendations \o temp.recommendations \o cpu.recommendations,
                 <<>>)
    ELSE NoPart

PerformancePart(res) ==
    IF "performance" \in DOMAIN res
    THEN LET memory_analysis == Get(res["performance"], "memory_analysis", EmptyDict)
             thermal_summary == Get(res["performance"], "thermal_summary", EmptyDict)
             usage == Get(memory_analysis, "usage_percent", 0)
             max_temp == Get(thermal_summary, "max_temp", 0)
             avg_cpu_util == Get(res["performance"], "avg_cpu_utilization", 0)
             mem == IF usage > 90
                    THEN Part(25, <<"Critical memory usage detected">>, <<>>,
                              <<"Close unnecessary applications to free memory">>, <<>>)
                    ELSE IF usage > 80
                    THEN Part(10, <<>>, <<"High memory usage">>, <<>>, <<>>)
                    ELSE NoPart
             temp == IF max_temp > 50
                     THEN Part(20, <<"Device overheating detected">>, <<>>,
                               <<"Allow device to cool down immediately">>, <<>>)
                     ELSE IF max_temp > 45
                     THEN Part(10, <<>>, <<"Device running warm">>, <<>>, <<>>)
                     ELSE NoPart
             cpu == IF avg_cpu_util > 90
                    THEN Part(15, <<>>, <<"High CPU utilization">>, <<>>, <<>>)
                    ELSE NoPart
         IN Part(Max0(70 - mem.score - temp.score - cpu.score),
                 mem.critical_issues \o temp.critical_issues \o cpu.critical_issues,
                 mem.warnings \o temp.warnings \o cpu.warnings,
                 mem.recommendations \o temp.recommendations \o cpu.recommendations,
                 <<>>)
    ELSE NoPart

SecurityPart(res) ==
    IF "security" \in DOMAIN res
    THEN LET security_score == Get(res["security"], "security_score", 50)
         IN IF security_score < 50
            THEN Part(security_score, <<>>, <<>>,
                      <<"Update system and enable security features">>,
                      <<"Multiple security vulnerabilities detected">>)
            ELSE IF security_score < 75
            THEN Part(security_score, <<>>, <<"Security configuration suboptimal">>,
                      <<>>, <<>>)
            ELSE Part(security_score, <<>>, <<>>, <<>>, <<>>)
    ELSE NoPart

SoftwarePart(res) ==
    IF "software" \in DOMAIN res
    THEN LET security_analysis == Get(res["software"], "security_analysis", EmptyDict)
             confidence == Get(security_analysis, "confidence_score", 0)
         IN IF Get(security_analysis, "likely_rooted", FALSE)
            THEN IF confidence > 60
                 THEN Part(75 - 40, <<>>, <<>>,
                           <<"Consider security implications of root access">>,
                           <<"Device appears to be rooted with high confidence">>)
                 ELSE IF confidence > 20
                 THEN Part(75 - 20, <<>>, <<"Possible root access detected">>,
                           <<>>, <<>>)
                 ELSE Part(75, <<>>, <<>>, <<>>, <<>>)
            ELSE Part(75, <<>>, <<>>, <<>>, <<>>)
    ELSE NoPart

(* int(success_rate * 100) with success_rate = (total - failed) / total *)
NetworkScore(total_tests, failed_tests) ==
    ((total_tests - failed_tests) * 100) \div total_tests

NetworkPart(res) ==
    IF "network" \in DOMAIN res
    THEN LET connectivity_tests == Get(res["network"], "connectivity_tests", EmptyDict)
             failed_tests ==
                 Cardinality({ k \in DOMAIN connectivity_tests :
                     Get(connectivity_tests[k], "status", "None") = "Failed" })
             total_tests == Cardinality(DOMAIN connectivity_tests)
         IN IF total_tests > 0
            THEN IF 2 * (total_tests - failed_tests) < total_tests
                 THEN Part(NetworkScore(total_tests, failed_tests),
                           <<"Multiple network connectivity failures">>, <<>>, <<>>, <<>>)
                 ELSE IF 5 * (total_tests - failed_tests) < 4 * total_tests
                 THEN Part(NetworkScore(total_tests, failed_tests),
                           <<>>, <<"Some network connectivity issues">>, <<>>, <<>>)
                 ELSE Part(NetworkScore(total_tests, failed_tests),
                           <<>>, <<>>, <<>>, <<>>)
            ELSE Part(80, <<>>, <<>>, <<>>, <<>>)
    ELSE NoPart

(* the loop over storage_analysis: penalty, findings and warnings so far *)
RECURSIVE StorageLoop(_)
StorageLoop(storage_analysis) ==
    IF storage_analysis = <<>> THEN Part(0, <<>>, <<>>, <<>>, <<>>)
    ELSE LET storage == Head(storage_analysis)
             rest == StorageLoop(Tail(storage_analysis))
             usage == Get(storage, "usage_percent", 0)
             mount == Get(storage, "mount_point", "Unknown")
         IN IF usage > 95
            THEN Part(30 + rest.score, <<>>, rest.warnings, <<>>,
                      <<"Storage critically full: " \o mount>> \o rest.critical_findings)
            ELSE IF usage > 85
            THEN Part(15 + rest.score, <<>>,
                      <<"Storage nearly full: " \o mount>> \o rest.warnings,
                      <<>>, rest.critical_findings)
            ELSE rest

StoragePart(res) ==
    IF "hardware" \in DOMAIN res
    THEN LET loop == StorageLoop(Get(res["hardware"], "storage_analysis", <<>>))
         IN Part(Max0(100 - loop.score), <<>>, loop.warnings, <<>>,
                 loop.critical_findings)
    ELSE NoPart

(* a CPU step weighed like an I/O step *)
StabilityPart_cpu10(res) ==
    IF "stress_test" \in DOMAIN res
    THEN LET cpu_tests == Get(res["stress_test"], "cpu_stress_tests", <<>>)
             io_tests == Get(res["stress_test"], "io_stress_tests", <<>>)
             memory_test == Get(res["stress_test"], "memory_stress_test", EmptyDict)
             cpu_failures == Cardinality({ i \in DOMAIN cpu_tests :
                                 ~ Get(cpu_tests[i], "completed", FALSE) })
             io_failures == Cardinality({ i \in DOMAIN io_tests :
                                 Get(io_tests[i], "status", "None") # "Completed" })
             unstable == Get(memory_test, "stability", "None") # "Stable"
         IN Part(Max0(100 - cpu_failures * 10 - io_failures * 10
                          - (IF unstable THEN 20 ELSE 0)),
                 <<>>,
                 (IF cpu_failures > 0
                  THEN <<IntStr(cpu_failures) \o " CPU stress test failures">>
                  ELSE <<>>)
                 \o (IF io_failures > 0
                     THEN <<IntStr(io_failures) \o " I/O performance issues">>
                     ELSE <<>>)
                 \o (IF unstable
                     THEN <<"Memory stability concerns detected">> ELSE <<>>),
                 <<>>, <<>>)
    ELSE NoPart

StabilityPart(res) ==
    IF "stress_test" \in DOMAIN res
    THEN LET cpu_tests == Get(res["stress_test"], "cpu_stress_tests", <<>>)
             io_tests == Get(res["stress_test"], "io_stress_tests", <<>>)
             memory_test == Get(res["stress_test"], "memory_stress_test", EmptyDict)
             cpu_failures == Cardinality({ i \in DOMAIN cpu_tests :
                                 ~ Get(cpu_tests[i], "completed", FALSE) })
             io_failures == Cardinality({ i \in DOMAIN io_tests :
                                 Get(io_tests[i], "status", "None") # "Completed" })
             unstable == Get(memory_test, "stability", "None") # "Stable"
         IN Part(Max0(100 - cpu_failures * 15 - io_failures * 10
                          - (IF unstable THEN 20 ELSE 0)),
                 <<>>,
                 (IF cpu_failures > 0
                  THEN <<IntStr(cpu_failures) \o " CPU stress test failures">>
                  ELSE <<>>)
                 \o (IF io_failures > 0
                     THEN <<IntStr(io_failures) \o " I/O performance issues">>
                     ELSE <<>>)
                 \o (IF unstable
                     THEN <<"Memory stability concerns detected">> ELSE <<>>),
                 <<>>, <<>>)
    ELSE NoPart

(* the seven blocks, in the order the code runs them *)
Parts(res) ==
    << BatteryPart(res), PerformancePart(res), SecurityPart(res),
       SoftwarePart(res), NetworkPart(res), StoragePart(res),
       StabilityPart(res) >>

health_metrics(res) ==
    [ battery     |-> BatteryPart(res).score,
      performance |-> PerformancePart(res).score,
      security    |-> SecurityPart(res).score,
      software    |-> SoftwarePart(res).score,
      network     |-> NetworkPart(res).score,
      storage     |-> StoragePart(res).score,
      stability   |-> StabilityPart(res).score ]

(* overall_score = (total_score / max_total) * 100, as an exact fraction *)
overall_score(res) ==
    [num |-> SumValues(health_metrics(res)) * 100, den |-> SumValues(max_scores)]

ScoreGE(score, n) == score.num >= n * score.den

StatusOf_strict_top(score) ==
    IF score.num > 90 * score.den
    THEN [status |-> "EXCELLENT", reliability_index |-> 95]
    ELSE IF ScoreGE(score, 80) THEN [status |-> "GOOD", reliability_index |-> 85]
    ELSE IF ScoreGE(score, 70) THEN [status |-> "FAIR", reliability_index |-> 70]
    ELSE IF ScoreGE(score, 50) THEN [status |-> "POOR", reliability_index |-> 50]
    ELSE [status |-> "CRITICAL", reliability_index |-> 25]

StatusOf(score) ==
    IF ScoreGE(score, 90) THEN [status |-> "EXCELLENT", reliability_index |-> 95]
    ELSE IF ScoreGE(score, 80) THEN [status |-> "GOOD", reliability_index |-> 85]
    ELSE IF ScoreGE(score, 70) THEN [status |-> "FAIR", reliability_index |-> 70]
    ELSE IF ScoreGE(score, 50) THEN [status |-> "POOR", reliability_index |-> 50]
    ELSE [status |-> "CRITICAL", reliability_index |-> 25]

DefaultRecommendation == "System performing within normal parameters"

WithDefault_always(recommendations) ==
    recommendations \o <<DefaultRecommendation>>

WithDefault(recommendations) ==
    IF recommendations = <<>> THEN <<DefaultRecommendation>> ELSE recommendations

calculate_comprehensive_system_health(res) ==
    LET parts == Parts(res)
        score == overall_score(res)
        st == StatusOf(score)
    IN [ status |-> st.status,
         score |-> score,
         reliability_index |-> st.reliability_index,
         critical_issues |-> Len(Concat([i \in 1..7 |-> parts[i].critical_issues])),
         warnings |-> Len(Concat([i \in 1..7 |-> parts[i].warnings])),
         recommendations |->
             WithDefault(Concat([i \in 1..7 |-> parts[i].recommendations])),
         critical_findings |-> Concat([i \in 1..7 |-> parts[i].critical_findings]),
         component_scores |-> health_metrics(res) ]

NoHealth == EmptyDict

-----------------------------------------------------------------------------
(* Probe payloads: the reserved fields the aggregator reads *)

BatteryScores == {30, 69, 100}

BatteryPayloads ==
    { [health_analysis |-> [overall_health_score |-> n]] : n \in BatteryScores }

PerformancePayloads ==
    { [memory_analysis |-> [usage_percent |-> u],
       thermal_summary |-> [max_temp |-> t],
       avg_cpu_utilization |-> c] :
         <<u, t, c>> \in { <<50, 40, 30>>, <<85, 40, 30>>, <<95, 55, 30>>,
                           <<50, 47, 95>> } }

SecurityPayloads == { [security_score |-> n] : n \in {40, 60, 100} }

SoftwarePayloads ==
    { [security_analysis |-> [likely_rooted |-> c > 20, confidence_score |-> c]] :
         c \in {0, 40, 80} }

PingTest(status) == [host |-> "8.8.8.8", status |-> status]

DnsTest == [google_lookup |-> "Pass", response_received |-> TRUE]

(* nslookup answered nothing: lines 939-943 *)
DnsTestFailed == [google_lookup |-> "Fail", response_received |-> FALSE]

NetworkPayloads ==
    { [connectivity_tests |-> ct] :
        ct \in { [dns_resolution |-> DnsTest],
                 [dns_resolution |-> DnsTestFailed],
                 [google_dns_ping |-> PingTest("Success"),
                  cloudflare_dns_ping |-> PingTest("Success"),
                  quad9_dns_ping |-> PingTest("Success"),
                  dns_resolution |-> DnsTest],
                 [google_dns_ping |-> PingTest("Failed"),
                  cloudflare_dns_ping |-> PingTest("Success"),
                  dns_resolution |-> DnsTest],
                 [google_dns_ping |-> PingTest("Failed"),
                  cloudflare_dns_ping |-> PingTest("Failed"),
                  quad9_dns_ping |-> PingTest("Failed"),
                  dns_resolution |-> DnsTest] } }

Partition(mount, usage) == [mount_point |-> mount, usage_percent |-> usage]

HardwarePayloads ==
    { [storage_analysis |-> sa] :
        sa \in { <<>>,
                 << Partition("/data", 50) >>,
                 << Partition("/data", 90), Partition("/system", 50) >>,
                 << Partition("/data", 97), Partition("/cache", 90) >> } }

StressPayloads ==
    { [cpu_stress_tests |-> cpu, io_stress_tests |-> io,
       memory_stress_test |-> [stability |-> mem]] :
        <<cpu, io, mem>> \in
          { << <<[completed |-> TRUE], [completed |-> TRUE]>>,
               <<[status |-> "Completed"]>>, "Stable" >>,
            << <<[completed |-> TRUE], [completed |-> FALSE]>>,
               <<[status |-> "Completed"]>>, "Stable" >>,
            << <<[completed |-> FALSE], [completed |-> FALSE]>>,
               <<[status |-> "Timeout"], [status |-> "Completed"]>>, "Fluctuated" >> } }

Payloads(t) ==
    CASE t = "battery"     -> BatteryPayloads
      [] t = "performance" -> PerformancePayloads
      [] t = "hardware"    -> HardwarePayloads
      [] t = "software"    -> SoftwarePayloads
      [] t = "security"    -> SecurityPayloads
      [] t = "network"     -> NetworkPayloads
      [] t = "stress_test" -> StressPayloads

-----------------------------------------------------------------------------
(* Sampler: continuous_monitoring_thread.  Command output is a sequence of *)
(* one-character strings; a numeric sample is kept in thousandths.         *)

monitoring_commands ==
    << "cpu_freq", "cpu_temp", "battery_temp", "battery_current",
       "battery_voltage", "mem_available", "load_avg" >>

SamplerDuration == 600

IsDigitChar(c) == c \in Range(Digits)

DigitVal(c) == (CHOOSE i \in 1..10 : Digits[i] = c) - 1

RECURSIVE DigitsToInt(_)
DigitsToInt(s) ==
    IF s = <<>> THEN 0
    ELSE DigitsToInt(SubSeq(s, 1, Len(s) - 1)) * 10 + DigitVal(s[Len(s)])

Remove(s, c) == SelectSeq(s, LAMBDA x : x # c)

(* str.isdigit *)
IsDigit(s) == s # <<>> /\ \A i \in DOMAIN s : IsDigitChar(s[i])

RECURSIVE Strip(_)
Strip(s) ==
    IF s = <<>> THEN s
    ELSE IF Head(s) = " " THEN Strip(Tail(s))
    ELSE IF s[Len(s)] = " " THEN Strip(SubSeq(s, 1, Len(s) - 1))
    ELSE s

(* str.split(): the maximal runs of non-blank characters *)
RECURSIVE Split(_)
Split(s) ==
    LET t == Strip(s)
    IN IF t = <<>> THEN <<>>
       ELSE LET blanks == { i \in DOMAIN t : t[i] = " " }
            IN IF blanks = {} THEN << t >>
               ELSE LET cut == CHOOSE i \in blanks : \A j \in blanks : i <= j
                    IN << SubSeq(t, 1, cut - 1) >> \o Split(SubSeq(t, cut + 1, Len(t)))

(* float(text) for a text of digits, '.' and '-': thousandths, or the      *)
(* default 0.0 when float() raises ValueError                              *)
ParseFloat(text) ==
    LET neg == text # <<>> /\ Head(text) = "-"
        body == IF neg THEN Tail(text) ELSE text
        dots == { i \in DOMAIN body : body[i] = "." }
        dot == IF dots = {} THEN Len(body) + 1 ELSE CHOOSE i \in dots : TRUE
        whole == SubSeq(body, 1, dot - 1)
        frac == SubSeq(body, dot + 1, Len(body))
        frac3 == SubSeq(frac \o <<"0", "0", "0">>, 1, 3)
        wellFormed == /\ Cardinality(dots) <= 1
                      /\ whole \o frac # <<>>
                      /\ \A i \in DOMAIN (whole \o frac) : IsDigitChar((whole \o frac)[i])
        magnitude == DigitsToInt(whole) * 1000 + DigitsToInt(frac3)
    IN IF wellFormed THEN (IF neg THEN 0 - magnitude ELSE magnitude) ELSE 0

safe_float(value) ==
    LET kept == SelectSeq(value, LAMBDA c : IsDigitChar(c) \/ c \in {".", "-"})
    IN IF kept = <<>> THEN 0 ELSE ParseFloat(kept)

Num(milli) == [num |-> milli]

Str(chars) == [str |-> chars]

IsNumeric(v) == "num" \in DOMAIN v

(* the value stored for a non-empty command output *)
SampleValue(metric, result) ==
    LET value == IF metric \in {"mem_available", "load_avg"}
                 THEN (IF Len(Split(result)) > 1 THEN Split(result)[2] ELSE result)
                 ELSE Strip(result)
    IN IF IsDigit(Remove(Remove(value, "."), "-"))
       THEN Num(safe_float(value))
       ELSE Str(value)

Sample(timestamp, value) == [timestamp |-> timestamp, value |-> value]

(* self.monitoring_data[metric].append(...) on a defaultdict(list) *)
(* a series that takes the new sample at its head *)
AppendSample_front(md, metric, sample) ==
    Put(md, metric, <<sample>> \o Get(md, metric, <<>>))

AppendSample(md, metric, sample) ==
    Put(md, metric, Append(Get(md, metric, <<>>), sample))

(* a sampler that stores a sample whatever the answer *)
ProbeMetric_always(md, metric, result, timestamp) ==
    AppendSample(md, metric, Sample(timestamp, SampleValue(metric, result)))

(* lines 1060-1070: what one adb answer does to the series *)
ProbeMetric(md, metric, result, timestamp) ==
    IF Strip(result) # <<>>
    THEN AppendSample(md, metric, Sample(timestamp, SampleValue(metric, result)))
    ELSE md

(* lines 1059-1070: the for loop of one tick, from metric number i on *)
RECURSIVE RunTick(_, _, _, _)
RunTick(md, answers, timestamp, i) ==
    IF i > Len(monitoring_commands) THEN md
    ELSE RunTick(ProbeMetric(md, monitoring_commands[i],
                             answers[monitoring_commands[i]], timestamp),
                 answers, timestamp, i + 1)

monitoring_interval == 5

(* the series after the ticks whose answers are given, one tick per period *)
RECURSIVE SeriesAfter(_)
SeriesAfter(history) ==
    IF history = <<>> THEN EmptyDict
    ELSE RunTick(SeriesAfter(SubSeq(history, 1, Len(history) - 1)),
                 history[Len(history)],
                 (Len(history) - 1) * monitoring_interval, 1)

(* what the device answers to the sampler's commands during one scan *)
DeviceNumeric ==
    [ cpu_freq        |-> <<"1", "5", "0", "0">>,
      cpu_temp        |-> <<"4", "5">>,
      battery_temp    |-> <<"3", "1", "0">>,
      battery_current |-> <<"-", "2", "5">>,
      battery_voltage |-> <<"4", "1", "0", "0">>,
      mem_available   |-> <<"M", ":", " ", "2", "0", "4", "8", " ", "k", "B">>,
      load_avg        |-> <<"0", ".", "5", " ", "0", ".", "6">> ]

DeviceFlaky ==
    [ cpu_freq        |-> <<>>,
      cpu_temp        |-> <<"4", "5">>,
      battery_temp    |-> <<"N", "/", "A">>,
      battery_current |-> <<>>,
      battery_voltage |-> <<"4", "1", "0", "0">>,
      mem_available   |-> <<>>,
      load_avg        |-> <<"0", ".", "5">> ]

Devices == { DeviceNumeric, DeviceFlaky }

ScanDevices == { DeviceNumeric }

-----------------------------------------------------------------------------
(* Statistics reducer: analyze_monitoring_data *)

RECURSIVE MinOf(_)
MinOf(xs) ==
    IF Len(xs) = 1 THEN xs[1]
    ELSE LET m == MinOf(Tail(xs)) IN IF Head(xs) < m THEN Head(xs) ELSE m

RECURSIVE MaxOf(_)
MaxOf(xs) ==
    IF Len(xs) = 1 THEN xs[1]
    ELSE LET m == MaxOf(Tail(xs)) IN IF Head(xs) > m THEN Head(xs) ELSE m

(* position of a character in the ordering of code points *)
CodeOrder ==
    << " ", "-", ".", "/", "0", "1", "2", "3", "4", "5", "6", "7", "8", "9",
       ":", "A", "B", "M", "N", "k" >>

CharCode(c) == CHOOSE i \in DOMAIN CodeOrder : CodeOrder[i] = c

RECURSIVE StrLess(_, _)
StrLess(a, b) ==
    IF b = <<>> THEN FALSE
    ELSE IF a = <<>> THEN TRUE
    ELSE IF Head(a) = Head(b) THEN StrLess(Tail(a), Tail(b))
    ELSE CharCode(Head(a)) < CharCode(Head(b))

(* a < b in Python: numbers, or strings; a number against a string raises *)
Comparable(a, b) == IsNumeric(a) = IsNumeric(b)

Less(a, b) == IF IsNumeric(a) THEN a.num < b.num ELSE StrLess(a.str, b.str)

Trend(first, last) ==
    IF Less(first, last) THEN "increasing"
    ELSE IF Less(last, first) THEN "decreasing"
    ELSE "stable"

MetricRaises(data_points) ==
    /\ \E i \in DOMAIN data_points : IsNumeric(data_points[i].value)
    /\ ~ Comparable(data_points[1].value, data_points[Len(data_points)].value)

RECURSIVE Insert(_, _)
Insert(x, sorted) ==
    IF sorted = <<>> THEN << x >>
    ELSE IF x <= Head(sorted) THEN << x >> \o sorted
    ELSE << Head(sorted) >> \o Insert(x, Tail(sorted))

RECURSIVE Sorted(_)
Sorted(xs) == IF xs = <<>> THEN xs ELSE Insert(Head(xs), Sorted(Tail(xs)))

(* round(num/den, 2) of a value counted in thousandths: the nearest        *)
(* hundredth, a value exactly half way going to the even hundredth         *)
Round2(num, den) ==
    LET unit == 10 * den
        q == num \div unit
        r == num - q * unit
        hundredths == IF 2 * r > unit THEN q + 1
                      ELSE IF 2 * r < unit THEN q
                      ELSE IF q % 2 = 0 THEN q ELSE q + 1
    IN 10 * hundredths

(* statistics.median: the middle value, or the mean of the two middle ones *)
Median(xs) ==
    LET sorted == Sorted(xs)
        n == Len(xs)
    IN IF n % 2 = 1 THEN [num |-> sorted[(n + 1) \div 2], den |-> 1]
       ELSE [num |-> sorted[n \div 2] + sorted[n \div 2 + 1], den |-> 2]

(* the population variance: sum((n*x - sum)^2) / n^3 *)
Variance_population(xs) ==
    LET n == Len(xs)
        total == SumSeq(xs)
    IN [num |-> SumSeq([i \in DOMAIN xs |-> (n * xs[i] - total) * (n * xs[i] - total)]),
        den |-> n * n * n]

(* statistics.variance (sample variance), in thousandths squared:          *)
(* sum((n*x - sum)^2) / (n^2 * (n - 1))                                    *)
Variance(xs) ==
    LET n == Len(xs)
        total == SumSeq(xs)
    IN [num |-> SumSeq([i \in DOMAIN xs |-> (n * xs[i] - total) * (n * xs[i] - total)]),
        den |-> n * n * (n - 1)]

(* variance < max(numeric_values) * 0.1, both sides in real units *)
VarianceBelowTenthOfMax(xs) ==
    Variance(xs).num < 100 * MaxOf(xs) * Variance(xs).den

(* a count of all the samples of the series, texts included *)
MetricStats_all_points(data_points) ==
    LET numeric_points == SelectSeq(data_points, LAMBDA dp : IsNumeric(dp.value))
        numeric_values == [i \in DOMAIN numeric_points |-> numeric_points[i].value.num]
        n == Len(numeric_values)
        base ==
          [ sample_count  |-> Len(data_points),
            min_value     |-> MinOf(numeric_values),
            max_value     |-> MaxOf(numeric_values),
            average       |-> Round2(SumSeq(numeric_values), n),
            median        |-> IF n > 1
                              THEN Round2(Median(numeric_values).num,
                                          Median(numeric_values).den)
                              ELSE numeric_values[1],
            range         |-> MaxOf(numeric_values) - MinOf(numeric_values),
            first_reading |-> data_points[1].value,
            last_reading  |-> data_points[Len(data_points)].value,
            trend         |-> Trend(data_points[1].value,
                                    data_points[Len(data_points)].value) ]
    IN IF n > 2
       THEN base @@
            [ variance  |-> Round2(Variance(numeric_values).num,
                                   1000 * Variance(numeric_values).den),
              stability |-> IF VarianceBelowTenthOfMax(numeric_values)
                            THEN "stable" ELSE "variable" ]
       ELSE base

MetricStats(data_points) ==
    LET numeric_points == SelectSeq(data_points, LAMBDA dp : IsNumeric(dp.value))
        numeric_values == [i \in DOMAIN numeric_points |-> numeric_points[i].value.num]
        n == Len(numeric_values)
        base ==
          [ sample_count  |-> n,
            min_value     |-> MinOf(numeric_values),
            max_value     |-> MaxOf(numeric_values),
            average       |-> Round2(SumSeq(numeric_values), n),
            median        |-> IF n > 1
                              THEN Round2(Median(numeric_values).num,
                                          Median(numeric_values).den)
                              ELSE numeric_values[1],
            range         |-> MaxOf(numeric_values) - MinOf(numeric_values),
            first_reading |-> data_points[1].value,
            last_reading  |-> data_points[Len(data_points)].value,
            trend         |-> Trend(data_points[1].value,
                                    data_points[Len(data_points)].value) ]
    IN IF n > 2
       THEN base @@
            [ variance  |-> Round2(Variance(numeric_values).num,
                                   1000 * Variance(numeric_values).den),
              stability |-> IF VarianceBelowTenthOfMax(numeric_values)
                            THEN "stable" ELSE "variable" ]
       ELSE base

TypeError == [raised |-> "TypeError"]

(* the analysis dict, or TypeError when a trend comparison raises *)
analyze_monitoring_data(md) ==
    LET summarized == { m \in DOMAIN md :
                          \E i \in DOMAIN md[m] : IsNumeric(md[m][i].value) }
    IN IF \E m \in summarized : MetricRaises(md[m])
       THEN TypeError
       ELSE [m \in summarized |-> MetricStats(md[m])]

-----------------------------------------------------------------------------
(* The state after ISVC.__init__, before run_comprehensive_scan *)

NotRead == [unread |-> TRUE]

ScanInit ==
    /\ now = 0
    /\ pc = "start"
    /\ taskState = [t \in TaskNames |-> "unsubmitted"]
    /\ startedAt = [t \in TaskNames |-> 0]
    /\ probe \in ProbeScenarios
    /\ results = EmptyDict
    /\ completed_tasks = 0
    /\ deadline = 0
    /\ schedEnd = -1
    /\ continuous_monitoring = TRUE
    /\ spc = "unstarted"
    /\ sEndTime = 0
    /\ sleepUntil = 0
    /\ smetric = 0
    /\ stimestamp = 0
    /\ sticks = 0
    /\ device \in ScanDevices
    /\ monitoring_data = EmptyDict
    /\ data_points_collected = 0
    /\ joinDeadline = 0
    /\ readSeries = NotRead
    /\ health = NoHealth

-----------------------------------------------------------------------------
(* run_comprehensive_scan: main thread, pool workers, sampler thread *)

(* bounds of the model *)
MaxTicks == 2

JoinTimeout == 30

ExtendedBudget == 600

scan_start_time == 0

(* what each probe returns when it returns *)
ScanPayload(t) ==
    CASE t = "battery" -> [health_analysis |-> [overall_health_score |-> 100]]
      [] t = "performance" ->
            [memory_analysis |-> [usage_percent |-> 50],
             thermal_summary |-> [max_temp |-> 40],
             avg_cpu_utilization |-> 30]
      [] t = "hardware" -> [storage_analysis |-> << Partition("/data", 50) >>]
      [] t = "software" ->
            [security_analysis |-> [likely_rooted |-> FALSE, confidence_score |-> 0]]
      [] t = "security" -> [security_score |-> 100]
      [] t = "network" -> [connectivity_tests |-> [dns_resolution |-> DnsTest]]
      [] t = "stress_test" ->
            [cpu_stress_tests |-> <<[completed |-> TRUE], [completed |-> TRUE]>>,
             io_stress_tests |-> <<[status |-> "Completed"]>>,
             memory_stress_test |-> [stability |-> "Stable"]]

IndexOf(t) == CHOOSE i \in DOMAIN analysis_tasks : analysis_tasks[i] = t

Running == { t \in TaskNames : taskState[t] = "running" }

Finished == { t \in TaskNames : taskState[t] \in {"returned", "raised"} }

Collected == TaskNames \cap DOMAIN results

ProcessAlive == pc \notin {"start", "done", "failed"}

(* lines 1864-1893: start the sampler thread, submit the seven tasks, and   *)
(* enter as_completed(future_to_task, timeout=720)                          *)
StartScan ==
    /\ pc = "start"
    /\ spc' = "check"
    /\ sEndTime' = now + SamplerDuration
    /\ taskState' = [t \in TaskNames |-> "queued"]
    /\ deadline' = now + OverallTimeout
    /\ pc' = "collect"
    /\ UNCHANGED << now, startedAt, sleepUntil, probe, results, completed_tasks, schedEnd,
                    continuous_monitoring, smetric, stimestamp, sticks, device,
                    monitoring_data, data_points_collected, joinDeadline,
                    readSeries, health >>

(* a pool that starts a worker for every queued work item *)
StartTask_unbounded(t) ==
    /\ ProcessAlive
    /\ taskState[t] = "queued"
    /\ \A u \in TaskNames : IndexOf(u) < IndexOf(t) => taskState[u] # "queued"
    /\ taskState' = [taskState EXCEPT ![t] = "running"]
    /\ startedAt' = [startedAt EXCEPT ![t] = now]
    /\ UNCHANGED << now, pc, probe, results, completed_tasks, deadline, schedEnd,
                    continuous_monitoring, spc, sEndTime, sleepUntil, smetric,
                    stimestamp, sticks, device, monitoring_data,
                    data_points_collected, joinDeadline, readSeries, health >>

(* a pool worker takes the oldest queued work item *)
StartTask(t) ==
    /\ ProcessAlive
    /\ taskState[t] = "queued"
    /\ \A u \in TaskNames : IndexOf(u) < IndexOf(t) => taskState[u] # "queued"
    /\ Cardinality(Running) < max_workers
    /\ taskState' = [taskState EXCEPT ![t] = "running"]
    /\ startedAt' = [startedAt EXCEPT ![t] = now]
    /\ UNCHANGED << now, pc, probe, results, completed_tasks, deadline, schedEnd,
                    continuous_monitoring, spc, sEndTime, sleepUntil, smetric, stimestamp,
                    sticks, device, monitoring_data, data_points_collected,
                    joinDeadline, readSeries, health >>

Due(t) ==
    /\ taskState[t] = "running"
    /\ probe[t].outcome # "hang"
    /\ now >= startedAt[t] + probe[t].duration

(* the probe function returns: the future is set to its result *)
TaskReturn(t) ==
    /\ Due(t)
    /\ probe[t].outcome = "return"
    /\ taskState' = [taskState EXCEPT ![t] = "returned"]
    /\ startedAt' = [startedAt EXCEPT ![t] = 0]
    /\ UNCHANGED << now, pc, probe, results, completed_tasks, deadline, schedEnd,
                    continuous_monitoring, spc, sEndTime, sleepUntil, smetric, stimestamp,
                    sticks, device, monitoring_data, data_points_collected,
                    joinDeadline, readSeries, health >>

(* the probe function raises: the future is set to the exception *)
TaskRaise(t) ==
    /\ Due(t)
    /\ probe[t].outcome = "raise"
    /\ taskState' = [taskState EXCEPT ![t] = "raised"]
    /\ startedAt' = [startedAt EXCEPT ![t] = 0]
    /\ UNCHANGED << now, pc, probe, results, completed_tasks, deadline, schedEnd,
                    continuous_monitoring, spc, sEndTime, sleepUntil, smetric, stimestamp,
                    sticks, device, monitoring_data, data_points_collected,
                    joinDeadline, readSeries, health >>

(* lines 1899-1922: future.result(timeout=180) of a finished future, and    *)
(* the entry stored under task_key                                          *)
TaskEntry_swallow(t) == ScanPayload(t)

TaskEntry(t) ==
    IF taskState[t] = "returned" THEN ScanPayload(t)
    ELSE ErrorRecord("probe raised")

(* one iteration of the as_completed loop: a finished future is yielded *)
Collect(t) ==
    /\ pc = "collect"
    /\ t \in Finished
    /\ t \notin DOMAIN results
    /\ completed_tasks' = completed_tasks + 1
    /\ results' = Put(results, t, TaskEntry(t))
    /\ UNCHANGED << now, pc, taskState, startedAt, probe, deadline, schedEnd,
                    continuous_monitoring, spc, sEndTime, sleepUntil, smetric, stimestamp,
                    sticks, device, monitoring_data, data_points_collected,
                    joinDeadline, readSeries, health >>

(* as_completed is exhausted; the with-block ends, shutdown(wait=True)      *)
(* finds every worker idle                                                  *)
CollectDone ==
    /\ pc = "collect"
    /\ TaskNames \subseteq DOMAIN results
    /\ pc' = "stop"
    /\ schedEnd' = now
    /\ UNCHANGED << now, taskState, startedAt, probe, results, completed_tasks,
                    deadline, continuous_monitoring, spc, sEndTime, sleepUntil, smetric,
                    stimestamp, sticks, device, monitoring_data,
                    data_points_collected, joinDeadline, readSeries, health >>

(* a timeout after which the scan goes on with what it has *)
CollectTimeout_proceed ==
    /\ pc = "collect"
    /\ ~ (TaskNames \subseteq DOMAIN results)
    /\ now >= deadline
    /\ pc' = "stop"
    /\ schedEnd' = now
    /\ UNCHANGED << now, taskState, startedAt, probe, results, completed_tasks,
                    deadline, continuous_monitoring, spc, sEndTime, sleepUntil,
                    smetric, stimestamp, sticks, device, monitoring_data,
                    data_points_collected, joinDeadline, readSeries, health >>

(* as_completed raises TimeoutError: futures are unfinished at its end_time *)
CollectTimeout ==
    /\ pc = "collect"
    /\ ~ (TaskNames \subseteq DOMAIN results)
    /\ now >= deadline
    /\ pc' = "unwind"
    /\ UNCHANGED << now, taskState, startedAt, probe, results, completed_tasks,
                    deadline, schedEnd, continuous_monitoring, spc, sEndTime, sleepUntil,
                    smetric, stimestamp, sticks, device, monitoring_data,
                    data_points_collected, joinDeadline, readSeries, health >>

(* ThreadPoolExecutor.__exit__ with the TimeoutError in flight:             *)
(* shutdown(wait=True) returns once every submitted task has run; the       *)
(* exception then leaves run_comprehensive_scan and is caught in __main__   *)
(* (lines 2129-2134)                                                        *)
UnwindDone ==
    /\ pc = "unwind"
    /\ Finished = TaskNames
    /\ pc' = "failed"
    /\ schedEnd' = now
    /\ continuous_monitoring' = FALSE
    /\ UNCHANGED << now, taskState, startedAt, probe, results, completed_tasks,
                    deadline, spc, sEndTime, sleepUntil, smetric, stimestamp, sticks, device,
                    monitoring_data, data_points_collected, joinDeadline,
                    readSeries, health >>

(* lines 1924-1925: clear the flag, monitoring_thread.join(timeout=30) *)
StopSampler ==
    /\ pc = "stop"
    /\ continuous_monitoring' = FALSE
    /\ joinDeadline' = now + JoinTimeout
    /\ pc' = "join"
    /\ UNCHANGED << now, taskState, startedAt, probe, results, completed_tasks,
                    deadline, schedEnd, spc, sEndTime, sleepUntil, smetric, stimestamp, sticks,
                    device, monitoring_data, data_points_collected, readSeries,
                    health >>

JoinReturn ==
    /\ pc = "join"
    /\ spc = "exited" \/ now >= joinDeadline
    /\ pc' = "reduce"
    /\ UNCHANGED << now, taskState, startedAt, probe, results, completed_tasks,
                    deadline, schedEnd, continuous_monitoring, spc, sEndTime, sleepUntil,
                    smetric, stimestamp, sticks, device, monitoring_data,
                    data_points_collected, joinDeadline, readSeries, health >>

(* line 1927: nothing was sampled *)
ReduceSkip ==
    /\ pc = "reduce"
    /\ monitoring_data = EmptyDict
    /\ pc' = "extended"
    /\ UNCHANGED << now, taskState, startedAt, probe, results, completed_tasks,
                    deadline, schedEnd, continuous_monitoring, spc, sEndTime, sleepUntil,
                    smetric, stimestamp, sticks, device, monitoring_data,
                    data_points_collected, joinDeadline, readSeries, health >>

(* line 1929: analyze_monitoring_data starts iterating self.monitoring_data *)
ReduceBegin ==
    /\ pc = "reduce"
    /\ monitoring_data # EmptyDict
    /\ readSeries' = monitoring_data
    /\ pc' = "reducing"
    /\ UNCHANGED << now, taskState, startedAt, probe, results, completed_tasks,
                    deadline, schedEnd, continuous_monitoring, spc, sEndTime, sleepUntil,
                    smetric, stimestamp, sticks, device, monitoring_data,
                    data_points_collected, joinDeadline, health >>

Fail ==
    /\ pc' = "failed"
    /\ continuous_monitoring' = FALSE

(* lines 1929-1930: the iteration ends.  If the sampler appended meanwhile  *)
(* the reducer has seen the series as they were or as they are; if the      *)
(* sampler added a metric the dict iterator may raise RuntimeError.  An     *)
(* exception leaves run_comprehensive_scan.                                 *)
ReduceEnd ==
    /\ pc = "reducing"
    /\ \/ /\ DOMAIN monitoring_data # DOMAIN readSeries
          /\ Fail
          /\ UNCHANGED << results, readSeries >>
       \/ \E seen \in {readSeries, monitoring_data} :
            LET analysis == analyze_monitoring_data(seen)
            IN /\ readSeries' = seen
               /\ IF analysis = TypeError
                  THEN Fail /\ UNCHANGED results
                  ELSE /\ results' = Put(results, "continuous_monitoring", analysis)
                       /\ pc' = "extended"
                       /\ UNCHANGED continuous_monitoring
    /\ UNCHANGED << now, taskState, startedAt, probe, completed_tasks, deadline,
                    schedEnd, spc, sEndTime, sleepUntil, smetric, stimestamp, sticks, device,
                    monitoring_data, data_points_collected, joinDeadline, health >>

sample_interval == 8

ExtendedReserve == 15

(* seconds the thirteen adb calls of one snapshot take together *)
SnapshotCosts == {0, 4, 45}

(* lines 1986-2045 with a loop that tests sample_interval instead *)
RECURSIVE ExtendedLoop_period(_, _, _, _)
ExtendedLoop_period(t, end_time, cost, samples) ==
    IF t < end_time - sample_interval
    THEN ExtendedLoop_period(t + cost + sample_interval, end_time, cost, Append(samples, t))
    ELSE [samples |-> samples, returned_at |-> t]

(* lines 1986-2045: the loop of perform_extended_analysis from its test at *)
(* time t: the timestamps of the snapshots taken and when the loop ends    *)
RECURSIVE ExtendedLoop(_, _, _, _)
ExtendedLoop(t, end_time, cost, samples) ==
    IF t < end_time - ExtendedReserve
    THEN ExtendedLoop(t + cost + sample_interval, end_time, cost, Append(samples, t))
    ELSE [samples |-> samples, returned_at |-> t]

(* lines 2047-2050 and 2096-2101: the dict perform_extended_analysis returns *)
ExtendedPayload(samples) ==
    [ samples |-> samples,
      analysis_summary |->
        [monitoring_stats |-> [total_samples |-> Len(samples),
                               sampling_duration |-> Len(samples) * 8]] ]

(* lines 1933-1941: perform_extended_analysis(remaining_time - 30) *)
ExtendedAnalysis ==
    /\ pc = "extended"
    /\ LET remaining_time == Max0(ExtendedBudget - (now - scan_start_time))
       IN IF remaining_time > 60
          THEN \E cost \in SnapshotCosts :
                 LET loop == ExtendedLoop(now, now + (remaining_time - 30), cost, <<>>)
                 IN /\ now' = loop.returned_at
                    /\ results' = Put(results, "extended_analysis",
                                      ExtendedPayload(loop.samples))
          ELSE UNCHANGED << now, results >>
    /\ pc' = "report"
    /\ UNCHANGED << taskState, startedAt, probe, completed_tasks, deadline,
                    schedEnd, continuous_monitoring, spc, sEndTime, sleepUntil,
                    smetric, stimestamp, sticks, device, monitoring_data,
                    data_points_collected, joinDeadline, readSeries, health >>

(* lines 1943-1977: generate_comprehensive_report computes the composite   *)
(* health; the scan returns                                                *)
GenerateReport ==
    /\ pc = "report"
    /\ health' = calculate_comprehensive_system_health(results)
    /\ pc' = "done"
    /\ UNCHANGED << now, taskState, startedAt, probe, results, completed_tasks,
                    deadline, schedEnd, continuous_monitoring, spc, sEndTime, sleepUntil,
                    smetric, stimestamp, sticks, device, monitoring_data,
                    data_points_collected, joinDeadline, readSeries >>

(* line 1046: the loop test of the sampler thread *)
SamplerCheck ==
    /\ ProcessAlive
    /\ spc = "check"
    /\ IF now < sEndTime /\ continuous_monitoring
       THEN /\ sticks < MaxTicks
            /\ stimestamp' = now
            /\ smetric' = 1
            /\ sticks' = sticks + 1
            /\ spc' = "probe"
       ELSE /\ spc' = "exited"
            /\ UNCHANGED << stimestamp, smetric, sticks >>
    /\ UNCHANGED << now, pc, taskState, startedAt, probe, results,
                    completed_tasks, deadline, schedEnd, continuous_monitoring,
                    sEndTime, sleepUntil, device, monitoring_data, data_points_collected,
                    joinDeadline, readSeries, health >>

(* lines 1059-1070: one metric of the tick *)
SamplerProbe ==
    /\ ProcessAlive
    /\ spc = "probe"
    /\ smetric <= Len(monitoring_commands)
    /\ LET metric == monitoring_commands[smetric]
       IN monitoring_data' =
            ProbeMetric(monitoring_data, metric, device[metric], stimestamp)
    /\ smetric' = smetric + 1
    /\ UNCHANGED << now, pc, taskState, startedAt, probe, results,
                    completed_tasks, deadline, schedEnd, continuous_monitoring,
                    spc, sEndTime, sleepUntil, stimestamp, sticks, device,
                    data_points_collected, joinDeadline, readSeries, health >>

(* lines 1072-1073: count the tick, go to sleep *)
SamplerTickEnd ==
    /\ ProcessAlive
    /\ spc = "probe"
    /\ smetric > Len(monitoring_commands)
    /\ data_points_collected' = data_points_collected + Len(monitoring_commands)
    /\ spc' = "sleep"
    /\ sleepUntil' = now + monitoring_interval
    /\ UNCHANGED << now, pc, taskState, startedAt, probe, results,
                    completed_tasks, deadline, schedEnd, continuous_monitoring,
                    sEndTime, smetric, stimestamp, sticks, device, monitoring_data,
                    joinDeadline, readSeries, health >>

(* time.sleep(monitoring_interval) returns *)
SamplerWake ==
    /\ ProcessAlive
    /\ spc = "sleep"
    /\ now >= sleepUntil
    /\ spc' = "check"
    /\ UNCHANGED << now, pc, taskState, startedAt, probe, results,
                    completed_tasks, deadline, schedEnd, continuous_monitoring,
                    sEndTime, sleepUntil, smetric, stimestamp, sticks, device, monitoring_data,
                    data_points_collected, joinDeadline, readSeries, health >>

(* the main thread or a pool worker has a step to take without waiting *)
Urgent ==
    \/ pc \in {"start", "stop", "reduce", "reducing", "extended", "report"}
    \/ /\ pc = "collect"
       /\ \/ Finished \ DOMAIN results # {}
          \/ TaskNames \subseteq DOMAIN results
          \/ now >= deadline
    \/ pc = "unwind" /\ Finished = TaskNames
    \/ pc = "join" /\ (spc = "exited" \/ now >= joinDeadline)
    \/ \E t \in TaskNames : ENABLED StartTask(t)
    \/ \E t \in TaskNames : Due(t)

(* time passes while every thread waits or works *)
Tick ==
    /\ ProcessAlive
    /\ ~ Urgent
    /\ now < MaxTime
    /\ now' = now + ClockStep
    /\ UNCHANGED << pc, taskState, startedAt, probe, results, completed_tasks,
                    deadline, schedEnd, continuous_monitoring, spc, sEndTime, sleepUntil,
                    smetric, stimestamp, sticks, device, monitoring_data,
                    data_points_collected, joinDeadline, readSeries, health >>

Next ==
    \/ StartScan
    \/ \E t \in TaskNames : StartTask(t)
    \/ \E t \in TaskNames : TaskReturn(t)
    \/ \E t \in TaskNames : TaskRaise(t)
    \/ \E t \in TaskNames : Collect(t)
    \/ CollectDone
    \/ CollectTimeout
    \/ UnwindDone
    \/ StopSampler
    \/ JoinReturn
    \/ ReduceSkip
    \/ ReduceBegin
    \/ ReduceEnd
    \/ ExtendedAnalysis
    \/ GenerateReport
    \/ SamplerCheck
    \/ SamplerProbe
    \/ SamplerTickEnd
    \/ SamplerWake
    \/ Tick

Init == ScanInit

Spec == Init /\ [][Next]_vars
-----------------------------------------------------------------------------
(* The aggregator as a function of self.results: every registered task's   *)
(* entry is missing, an ErrorRecord, or one of the task's payloads.        *)

Absent == [absent |-> TRUE]

Entries(t) == Payloads(t) \cup {ErrorRecord("probe failed"), Absent}

ResultsOf(b, p, h, sw, se, n, st) ==
    LET all == [battery |-> b, performance |-> p, hardware |-> h,
                software |-> sw, security |-> se, network |-> n,
                stress_test |-> st]
    IN [k \in {x \in TaskNames : all[x] # Absent} |-> all[k]]

HealthInputs ==
    { ResultsOf(b, p, h, sw, se, n, st) :
        b \in Entries("battery"), p \in Entries("performance"),
        h \in Entries("hardware"), sw \in Entries("software"),
        se \in Entries("security"), n \in Entries("network"),
        st \in Entries("stress_test") }

InitHealth ==
    /\ now = 0
    /\ pc = "health_input"
    /\ taskState = [t \in TaskNames |-> "unsubmitted"]
    /\ startedAt = [t \in TaskNames |-> 0]
    /\ probe = [t \in TaskNames |-> Nominal]
    /\ results \in HealthInputs
    /\ completed_tasks = 0
    /\ deadline = 0
    /\ schedEnd = -1
    /\ continuous_monitoring = TRUE
    /\ spc = "unstarted"
    /\ sEndTime = 0
    /\ sleepUntil = 0
    /\ smetric = 0
    /\ stimestamp = 0
    /\ sticks = 0
    /\ device = EmptyDict
    /\ monitoring_data = EmptyDict
    /\ data_points_collected = 0
    /\ joinDeadline = 0
    /\ readSeries = NotRead
    /\ health = NoHealth

HealthCall ==
    /\ pc = "health_input"
    /\ health' = calculate_comprehensive_system_health(results)
    /\ pc' = "health_done"
    /\ UNCHANGED << now, taskState, startedAt, probe, results, completed_tasks,
                    deadline, schedEnd, continuous_monitoring, spc, sEndTime, sleepUntil,
                    smetric, stimestamp, sticks, device, monitoring_data,
                    data_points_collected, joinDeadline, readSeries >>

NextHealth == HealthCall

SpecHealth == InitHealth /\ [][NextHealth]_vars

-----------------------------------------------------------------------------
(* The reducer and what follows it, from the state in which                *)
(* monitoring_thread.join has returned with the sampler thread ended: the  *)
(* series are whatever the ticks of the sampler stored.                    *)

MaxSamples == 3

(* what the device answers in one tick: cpu_temp is missing, a number or   *)
(* a text; load_avg has one field or several; battery_temp is always text  *)
TickAnswers ==
    { [m \in Range(monitoring_commands) |->
         CASE m = "cpu_temp" -> c
           [] m = "load_avg" -> l
           [] m = "battery_temp" -> <<"N", "/", "A">>
           [] OTHER -> <<>>] :
        c \in { <<>>, <<"4", "5">>, <<"4", "6">>, <<"N", "/", "A">> },
        l \in { <<"1", ".", "5", " ", "2", ".", "0">>, <<"3">> } }

RECURSIVE Histories(_)
Histories(n) ==
    IF n = 0 THEN { <<>> }
    ELSE Histories(n - 1) \cup
         { Append(h, a) : h \in { x \in Histories(n - 1) : Len(x) = n - 1 },
                          a \in TickAnswers }

InitReducer ==
    /\ \E history \in Histories(MaxSamples) :
         /\ monitoring_data = SeriesAfter(history)
         /\ sticks = Len(history)
         /\ data_points_collected = Len(history) * Len(monitoring_commands)
         /\ stimestamp = Max0(Len(history) - 1) * monitoring_interval
         /\ smetric = IF history = <<>> THEN 0 ELSE Len(monitoring_commands) + 1
         /\ now = Len(history) * monitoring_interval
         /\ schedEnd = Len(history) * monitoring_interval
         /\ joinDeadline = Len(history) * monitoring_interval + JoinTimeout
    /\ pc = "reduce"
    /\ taskState = [t \in TaskNames |-> "returned"]
    /\ startedAt = [t \in TaskNames |-> 0]
    /\ probe = [t \in TaskNames |-> Nominal]
    /\ results = [t \in TaskNames |-> ScanPayload(t)]
    /\ completed_tasks = Len(analysis_tasks)
    /\ deadline = scan_start_time + OverallTimeout
    /\ continuous_monitoring = FALSE
    /\ spc = "exited"
    /\ sEndTime = scan_start_time + SamplerDuration
    /\ sleepUntil = 0
    /\ device = EmptyDict
    /\ readSeries = NotRead
    /\ health = NoHealth

NextReducer ==
    \/ ReduceSkip
    \/ ReduceBegin
    \/ ReduceEnd
    \/ ExtendedAnalysis
    \/ GenerateReport

SpecReducer == InitReducer /\ [][NextReducer]_vars

-----------------------------------------------------------------------------
(* The sampler thread on a fine clock, beside a scan in which six probes   *)
(* have been collected at once and the last one returns at any time.  An   *)
(* adb call lasts at most its timeout, time.sleep lasts the interval.      *)

AdbTimeout == 45

SamplerClockStep == 15

SamplerMaxTime == 630

LastTask == analysis_tasks[Len(analysis_tasks)]

InitSampler ==
    /\ now = scan_start_time
    /\ pc = "collect"
    /\ taskState = [t \in TaskNames |-> IF t = LastTask THEN "running" ELSE "returned"]
    /\ startedAt = [t \in TaskNames |-> scan_start_time]
    /\ probe = [t \in TaskNames |-> Nominal]
    /\ results = [t \in TaskNames \ {LastTask} |-> ScanPayload(t)]
    /\ completed_tasks = Len(analysis_tasks) - 1
    /\ deadline = scan_start_time + OverallTimeout
    /\ schedEnd = -1
    /\ continuous_monitoring = TRUE
    /\ spc = "check"
    /\ sEndTime = scan_start_time + SamplerDuration
    /\ sleepUntil = 0
    /\ smetric = 0
    /\ stimestamp = 0
    /\ sticks = 0
    /\ device \in Devices
    /\ monitoring_data = EmptyDict
    /\ data_points_collected = 0
    /\ joinDeadline = 0
    /\ readSeries = NotRead
    /\ health = NoHealth

(* the main thread has a step to take without waiting *)
MainUrgent ==
    \/ pc = "stop"
    \/ pc = "collect" /\ (Finished \ DOMAIN results # {} \/ TaskNames \subseteq DOMAIN results)
    \/ pc = "join" /\ (spc = "exited" \/ now >= joinDeadline)

(* the next instant at which a sleeping or waiting thread must go on *)
Horizon ==
    (IF spc = "probe" THEN { stimestamp + smetric * AdbTimeout } ELSE {})
    \cup (IF spc = "sleep" THEN { sleepUntil } ELSE {})
    \cup (IF pc = "join" THEN { joinDeadline } ELSE {})
    \cup (IF now < sEndTime THEN { sEndTime } ELSE {})

SamplerClock ==
    /\ ProcessAlive
    /\ ~ MainUrgent
    /\ now < SamplerMaxTime
    /\ spc = "check" => ~ ENABLED SamplerCheck
    /\ spc = "probe" => smetric <= Len(monitoring_commands)
    /\ \A h \in Horizon : now < h
    /\ now' = IF \E h \in Horizon : h < now + SamplerClockStep
              THEN CHOOSE h \in Horizon : \A g \in Horizon : h <= g
              ELSE now + SamplerClockStep
    /\ UNCHANGED << pc, taskState, startedAt, probe, results, completed_tasks,
                    deadline, schedEnd, continuous_monitoring, spc, sEndTime,
                    sleepUntil, smetric, stimestamp, sticks, device,
                    monitoring_data, data_points_collected, joinDeadline,
                    readSeries, health >>

NextSampler ==
    \/ TaskReturn(LastTask)
    \/ Collect(LastTask)
    \/ CollectDone
    \/ StopSampler
    \/ JoinReturn
    \/ SamplerCheck
    \/ SamplerProbe
    \/ SamplerTickEnd
    \/ SamplerWake
    \/ SamplerClock

SpecSampler == InitSampler /\ [][NextSampler]_vars

-----------------------------------------------------------------------------
(* The extended analysis and the report, from the state in which the       *)
(* probes are collected, the sampler has ended without a sample and the    *)
(* main thread reaches line 1933 some time after the start of the scan.    *)

ExtendedStartStep == 20

ExtendedStarts ==
    { n * ExtendedStartStep : n \in 0..(ExtendedBudget \div ExtendedStartStep) }

InitExtended ==
    /\ now \in { scan_start_time + e : e \in ExtendedStarts }
    /\ pc = "extended"
    /\ taskState = [t \in TaskNames |-> "returned"]
    /\ startedAt = [t \in TaskNames |-> 0]
    /\ probe = [t \in TaskNames |-> Nominal]
    /\ results = [t \in TaskNames |-> ScanPayload(t)]
    /\ completed_tasks = Len(analysis_tasks)
    /\ deadline = scan_start_time + OverallTimeout
    /\ schedEnd = now
    /\ continuous_monitoring = FALSE
    /\ spc = "exited"
    /\ sEndTime = scan_start_time + SamplerDuration
    /\ sleepUntil = 0
    /\ smetric = 0
    /\ stimestamp = 0
    /\ sticks = 0
    /\ device = EmptyDict
    /\ monitoring_data = EmptyDict
    /\ data_points_collected = 0
    /\ joinDeadline = now + JoinTimeout
    /\ readSeries = NotRead
    /\ health = NoHealth

NextExtended ==
    \/ ExtendedAnalysis
    \/ GenerateReport

SpecExtended == InitExtended /\ [][NextExtended]_vars

-----------------------------------------------------------------------------
(* Properties of the aggregator, under SpecHealth *)

SubsystemOf(t) ==
    CASE t = "hardware" -> "storage"
      [] t = "stress_test" -> "stability"
      [] OTHER -> t

HealthDone == pc = "health_done"

(* C7: the composite score is sum(component scores) / 700 * 100 whatever    *)
(* subset of the subsystems is present; the denominator is the fixed seven, *)
(* so one present subsystem scoring 70 gives 10.                           *)
C7_FixedDenominator ==
    HealthDone =>
        /\ health.score.num * 700
             = SumValues(health.component_scores) * 100 * health.score.den
        /\ \A k \in Subsystems :
             ( /\ health.component_scores[k] = 70
               /\ \A j \in Subsystems \ {k} : health.component_scores[j] = 0 )
             => health.score.num = 10 * health.score.den

C7_Witness ==
    /\ HealthDone
    /\ DOMAIN results = {"performance"}
    /\ health.component_scores["performance"] = 70
    /\ health.score.num = 10 * health.score.den

(* C8: a subsystem whose entry is an ErrorRecord or is missing contributes *)
(* 0 to the composite numerator.                                           *)
C8_ErrorContributesZero ==
    HealthDone =>
        \A t \in TaskNames :
            (t \notin DOMAIN results \/ IsErrorRecord(results[t]))
            => health.component_scores[SubsystemOf(t)] = 0

(* C9: status and reliability index are the fixed step function of the     *)
(* composite score: >=90 EXCELLENT/95, >=80 GOOD/85, >=70 FAIR/70,          *)
(* >=50 POOR/50, else CRITICAL/25.                                          *)
C9_StepFunction ==
    HealthDone =>
        LET sc == health.score
            pair == <<health.status, health.reliability_index>>
        IN /\ (sc.num >= 90 * sc.den) => pair = <<"EXCELLENT", 95>>
           /\ (sc.num >= 80 * sc.den /\ sc.num < 90 * sc.den) => pair = <<"GOOD", 85>>
           /\ (sc.num >= 70 * sc.den /\ sc.num < 80 * sc.den) => pair = <<"FAIR", 70>>
           /\ (sc.num >= 50 * sc.den /\ sc.num < 70 * sc.den) => pair = <<"POOR", 50>>
           /\ (sc.num < 50 * sc.den) => pair = <<"CRITICAL", 25>>

C9_Witness ==
    /\ HealthDone
    /\ health.score.num = 90 * health.score.den
    /\ health.status = "EXCELLENT"
    /\ health.reliability_index = 95

NoRuleFired ==
    /\ health.warnings = 0
    /\ health.critical_issues = 0
    /\ health.critical_findings = <<>>

(* C10 as claimed: the recommendations are the single default entry when   *)
(* no rule fired, and the default entry is present only in that case.      *)
C10_DefaultOnlyWhenNoRule ==
    HealthDone =>
        /\ NoRuleFired => health.recommendations = <<DefaultRecommendation>>
        /\ DefaultRecommendation \in Range(health.recommendations) => NoRuleFired

(* the rules that append a recommendation, read off the entries of results *)
RecommendingRuleFired ==
    \/ /\ "battery" \in DOMAIN results
       /\ Get(Get(results["battery"], "health_analysis", EmptyDict),
              "overall_health_score", 50) < 70
    \/ /\ "performance" \in DOMAIN results
       /\ \/ Get(Get(results["performance"], "memory_analysis", EmptyDict),
                 "usage_percent", 0) > 90
          \/ Get(Get(results["performance"], "thermal_summary", EmptyDict),
                 "max_temp", 0) > 50
    \/ /\ "security" \in DOMAIN results
       /\ Get(results["security"], "security_score", 50) < 50
    \/ /\ "software" \in DOMAIN results
       /\ LET sa == Get(results["software"], "security_analysis", EmptyDict)
          IN Get(sa, "likely_rooted", FALSE) /\ Get(sa, "confidence_score", 0) > 60

(* C10 amended: the recommendations are the single default entry exactly   *)
(* when no rule that appends a recommendation fired (so also when no rule  *)
(* fired at all); otherwise the default entry is absent.  Rules that add   *)
(* only a warning, critical issue or finding leave the default in place.   *)
C10_DefaultIffNoRecommendation ==
    HealthDone =>
        /\ NoRuleFired => health.recommendations = <<DefaultRecommendation>>
        /\ ~ RecommendingRuleFired
             <=> health.recommendations = <<DefaultRecommendation>>
        /\ RecommendingRuleFired
             => DefaultRecommendation \notin Range(health.recommendations)

C10_Witness ==
    /\ HealthDone
    /\ health.warnings > 0
    /\ health.critical_issues > 0
    /\ health.recommendations = <<DefaultRecommendation>>


-----------------------------------------------------------------------------
(* Properties of the scan, under Spec *)

(* slack allowed on a deadline, in seconds *)
Epsilon == 60

SchedulerEnded == schedEnd # -1

AllRecorded == TaskNames \subseteq DOMAIN results

(* C1: whenever the scheduler phase ends, every registered task name has   *)
(* an entry in the results, whatever the tasks did (returned, raised, or   *)
(* were still pending when the overall timeout elapsed).                   *)
C1_EveryTaskRecorded == SchedulerEnded => AllRecorded

(* C2: the scheduler phase is over within the overall timeout plus epsilon *)
(* of its start: it is never still in progress after that, and it never    *)
(* ends later than that.                                                   *)
C2_ReturnsByDeadline ==
    /\ pc \in {"collect", "unwind"} => now <= deadline + Epsilon
    /\ SchedulerEnded => schedEnd <= deadline + Epsilon

Overrunning(t) ==
    /\ taskState[t] = "running"
    /\ now > startedAt[t] + TaskTimeout

(* C3: a probe running past its per-task timeout is recorded as an         *)
(* ErrorRecord with partial_data under its own name and gives up its       *)
(* worker, so no task stays queued behind a pool of overrunning probes.    *)
C3_HungProbeReclaimed ==
    /\ \A t \in TaskNames :
         Overrunning(t) =>
            /\ t \in DOMAIN results
            /\ IsErrorRecord(results[t])
            /\ results[t].partial_data
    /\ \A u \in TaskNames :
         taskState[u] = "queued" => \E t \in FirstWorkers : ~ Overrunning(t)

(* C4: a probe that raises gets an ErrorRecord (message, partial_data)     *)
(* under its own name; every other recorded entry is the payload that task *)
(* returns in any scan; and the collecting loop is left only with every    *)
(* task recorded or at the overall deadline, never because of the raise.   *)
C4_RaiseBecomesErrorRecord ==
    /\ \A t \in Collected :
         IF probe[t].outcome = "raise"
         THEN /\ IsErrorRecord(results[t])
              /\ results[t].partial_data
              /\ DOMAIN results[t] = {"error", "partial_data"}
         ELSE results[t] = ScanPayload(t)
    /\ pc \notin {"start", "collect"} => (AllRecorded \/ now >= deadline)

C4_Witness ==
    /\ SchedulerEnded
    /\ AllRecorded
    /\ \E t \in TaskNames :
         /\ probe[t].outcome = "raise"
         /\ IsErrorRecord(results[t])
         /\ \A u \in TaskNames \ {t} : results[u] = ScanPayload(u)

ScanEnded == pc \in {"done", "failed"}

(* C5: a scan whose scheduler deadline passed with tasks still pending     *)
(* does not fail: it ends with a composite health built from the entries   *)
(* recorded so far.                                                        *)
C5_TimeoutDegradesGracefully ==
    (ScanEnded /\ ~ AllRecorded) => (pc = "done" /\ health # NoHealth)

ReducerHasRead == readSeries # NotRead

(* C6: once the reducer has begun to read the series, the sampler appends  *)
(* no sample and does not change its counter.                              *)
C6_SamplerQuiescedBeforeRead ==
    [][ReducerHasRead =>
          /\ monitoring_data' = monitoring_data
          /\ data_points_collected' = data_points_collected]_vars

-----------------------------------------------------------------------------
(* Properties of the reducer, under SpecReducer *)

ReducerReturned == "continuous_monitoring" \in DOMAIN results

Stats == results["continuous_monitoring"]

NumericValues(m) ==
    LET numeric_points == SelectSeq(monitoring_data[m], LAMBDA dp : IsNumeric(dp.value))
    IN [i \in DOMAIN numeric_points |-> numeric_points[i].value.num]

HasNumeric(m) == m \in DOMAIN monitoring_data /\ NumericValues(m) # <<>>

(* C11: the reducer returns for every series the sampler can store, also   *)
(* for a series that mixes numbers and texts; the scan never ends failed   *)
(* once the reducer has begun.                                             *)
C11_ReducerNeverAborts == ReducerHasRead => pc # "failed"

(* C12: for every metric with a numeric sample, first and last reading are *)
(* the first and last numeric samples and the trend compares those two;    *)
(* texts at either end of the series change nothing.                       *)
C12_TrendFromNumericEnds ==
    ReducerReturned =>
        \A m \in Range(monitoring_commands) :
            HasNumeric(m) =>
                LET xs == NumericValues(m)
                    first == xs[1]
                    last == xs[Len(xs)]
                IN /\ m \in DOMAIN Stats
                   /\ Stats[m].first_reading = Num(first)
                   /\ Stats[m].last_reading = Num(last)
                   /\ Stats[m].trend = "stable" <=> first = last
                   /\ Stats[m].trend = "increasing" <=> last > first
                   /\ Stats[m].trend = "decreasing" <=> last < first

SumOfSquares(xs) == SumSeq([i \in DOMAIN xs |-> xs[i] * xs[i]])

(* sample variance < 0.1 * max, the variance taken of the distances from   *)
(* the smallest sample: (n*sum(y^2) - sum(y)^2) / (n*(n-1))                *)
SampleVarianceSmall(xs) ==
    LET n == Len(xs)
        ys == [i \in DOMAIN xs |-> xs[i] - MinOf(xs)]
    IN n * SumOfSquares(ys) - SumSeq(ys) * SumSeq(ys) < 100 * MaxOf(xs) * n * (n - 1)

(* C13: with one numeric sample the median is that sample; variance and    *)
(* stability are absent up to two numeric samples and present from three,  *)
(* stability being "stable" iff the sample variance is below a tenth of    *)
(* the largest sample, "variable" otherwise.                               *)
C13_MedianVarianceStability ==
    ReducerReturned =>
        \A m \in DOMAIN Stats :
            LET xs == NumericValues(m)
                n == Len(xs)
            IN /\ n = 1 => Stats[m].median = xs[1]
               /\ n <= 2 => {"variance", "stability"} \cap DOMAIN Stats[m] = {}
               /\ n > 2 =>
                    /\ {"variance", "stability"} \subseteq DOMAIN Stats[m]
                    /\ Stats[m].stability \in {"stable", "variable"}
                    /\ Stats[m].stability = "stable" <=> SampleVarianceSmall(xs)

C13_Witness ==
    /\ ReducerReturned
    /\ \E m \in DOMAIN Stats : Len(NumericValues(m)) = 1 /\ Stats[m].median = 45000
    /\ \E m \in DOMAIN Stats :
         /\ Len(NumericValues(m)) = 3
         /\ Stats[m].variance > 0
         /\ Stats[m].stability = "variable"
    /\ pc = "done"

-----------------------------------------------------------------------------
(* Properties of the sampler, under SpecSampler *)

Series(m) == Get(monitoring_data, m, <<>>)

SamplesAt(m, timestamp) ==
    Cardinality({ i \in DOMAIN Series(m) : Series(m)[i].timestamp = timestamp })

Answered(m) == Strip(device[m]) # <<>>

(* the metric numbered i has had its turn in the tick last started *)
Probed(i) == spc # "probe" \/ i < smetric

(* C14: in the tick last started, every metric that has had its turn has   *)
(* exactly one sample with the tick's timestamp if its probe answered and  *)
(* none if it failed; a failed probe does not keep the later metrics of    *)
(* the tick from being probed.                                             *)
C14_FailedProbeSkipsOnlyItself ==
    sticks >= 1 =>
        \A i \in DOMAIN monitoring_commands :
            LET m == monitoring_commands[i]
            IN /\ (Probed(i) /\ Answered(m)) => SamplesAt(m, stimestamp) = 1
               /\ ~ Answered(m) => Series(m) = <<>>
               /\ ~ Probed(i) => SamplesAt(m, stimestamp) = 0
               /\ Answered(m) =>
                    Len(Series(m)) = IF Probed(i) THEN sticks ELSE sticks - 1

C14_Witness ==
    /\ spc = "sleep"
    /\ ~ Answered(monitoring_commands[1])
    /\ \E i \in DOMAIN monitoring_commands :
         /\ i > 1
         /\ Answered(monitoring_commands[i])
         /\ SamplesAt(monitoring_commands[i], stimestamp) = 1

StopRequestedAt == joinDeadline - JoinTimeout

(* C15: once the stop flag has been cleared the sampler thread has exited  *)
(* by one sampling period later.                                           *)
C15_StopLatencyOnePeriod ==
    (pc \in {"join", "reduce"} /\ spc # "exited")
        => now <= StopRequestedAt + monitoring_interval

TotalSamples == SumSeq([i \in DOMAIN monitoring_commands |-> Len(Series(monitoring_commands[i]))])

(* C16: whenever no tick is in progress the counter equals the number of   *)
(* samples in the series.                                                  *)
C16_CounterCountsSamples ==
    spc # "probe" => data_points_collected = TotalSamples

-----------------------------------------------------------------------------
(* Properties of the extended analysis, under Spec and SpecExtended *)

ExtendedRan == "extended_analysis" \in DOMAIN results

(* C17: the main thread is at or past perform_extended_analysis only when  *)
(* every submitted probe task has finished, so no snapshot is taken beside *)
(* a running probe.                                                        *)
C17_ExtendedAfterProbes ==
    (pc \in {"extended", "report", "done"} \/ ExtendedRan)
        => \A t \in TaskNames : taskState[t] \in {"returned", "raised"}

C17_Witness ==
    /\ ExtendedRan
    /\ Len(results["extended_analysis"].samples) > 1
    /\ \E t \in TaskNames : probe[t].duration = ClockStep
    /\ pc = "done"

(* end_time of perform_extended_analysis: line 1934 and line 1938 *)
ExtendedEnd == scan_start_time + ExtendedBudget - 30

Snapshots == results["extended_analysis"].samples

(* C18 as claimed: every snapshot is taken with at least one sample period *)
(* left of the budget, and the loop ends with less than one period left.   *)
C18_SnapshotWhilePeriodRemains ==
    (ExtendedRan /\ pc = "report") =>
        /\ \A i \in DOMAIN Snapshots : ExtendedEnd - Snapshots[i] >= sample_interval
        /\ ExtendedEnd - now < sample_interval

(* C18 amended: every snapshot is taken at a loop test with more than 15 s *)
(* left of the budget, and the loop ends at the first test with 15 s or    *)
(* less left; the snapshots are one sample period plus the time of their   *)
(* adb calls apart.                                                        *)
C18_SnapshotWhileReserveRemains ==
    (ExtendedRan /\ pc = "report") =>
        /\ Snapshots # <<>>
        /\ \A i \in DOMAIN Snapshots : ExtendedEnd - Snapshots[i] > ExtendedReserve
        /\ ExtendedEnd - now <= ExtendedReserve
        /\ \A i \in DOMAIN Snapshots :
             i > 1 => Snapshots[i] - Snapshots[i - 1] >= sample_interval
        /\ now - Snapshots[Len(Snapshots)] >= sample_interval

C18_Witness ==
    /\ ExtendedRan
    /\ pc = "report"
    /\ Len(Snapshots) > 1
    /\ ExtendedEnd - now >= sample_interval
    /\ ExtendedEnd - now <= ExtendedReserve

-----------------------------------------------------------------------------
(* Properties of the pool, under Spec *)

Started(t) == taskState[t] \in {"running", "returned", "raised"}

(* C19: never more than max_workers probe tasks run at once, and a task is *)
(* handed to a worker only when every task registered before it has been.  *)
C19_PoolBoundAndOrder ==
    /\ Cardinality(Running) <= max_workers
    /\ \A t \in TaskNames :
         Started(t) => \A u \in TaskNames : IndexOf(u) < IndexOf(t) => Started(u)

C19_Witness ==
    /\ Cardinality(Running) = max_workers
    /\ taskState[analysis_tasks[max_workers + 1]] = "running"
    /\ taskState[analysis_tasks[max_workers + 2]] = "queued"

-----------------------------------------------------------------------------
(* Properties of the network score, under SpecHealth *)

ConnectivityTests == Get(results["network"], "connectivity_tests", EmptyDict)

(* a connectivity test reports success: a ping by its status, the DNS      *)
(* lookup by google_lookup                                                 *)
ReportsSuccess(test) ==
    \/ Get(test, "status", "None") = "Success"
    \/ Get(test, "google_lookup", "None") = "Pass"

Successes == Cardinality({ k \in DOMAIN ConnectivityTests : ReportsSuccess(ConnectivityTests[k]) })

TotalTests == Cardinality(DOMAIN ConnectivityTests)

(* C20: with at least one connectivity test, the network score is the      *)
(* share of tests that report success, times 100 (whole part); a share     *)
(* under 0.5 records a critical issue, otherwise one under 0.8 a warning,  *)
(* otherwise nothing.                                                      *)
C20_NetworkScoreFromSuccesses ==
    (HealthDone /\ "network" \in DOMAIN results /\ TotalTests > 0) =>
        LET network == NetworkPart(results)
        IN /\ health.component_scores["network"] = (Successes * 100) \div TotalTests
           /\ 2 * Successes < TotalTests =>
                /\ Len(network.critical_issues) = 1
                /\ network.warnings = <<>>
           /\ (2 * Successes >= TotalTests /\ 5 * Successes < 4 * TotalTests) =>
                /\ network.critical_issues = <<>>
                /\ Len(network.warnings) = 1
           /\ 5 * Successes >= 4 * TotalTests =>
                /\ network.critical_issues = <<>>
                /\ network.warnings = <<>>


-----------------------------------------------------------------------------
(* calculate_battery_health_comprehensive: float arithmetic as exact       *)
(* fractions [num, den] in lowest terms with den > 0                       *)

Abs(x) == IF x < 0 THEN -x ELSE x

RECURSIVE GCD(_, _)
GCD(a, b) == IF b = 0 THEN a ELSE GCD(b, a % b)

Frac(n, d) ==
    LET g == GCD(Abs(n), d)
    IN [num |-> n \div g, den |-> d \div g]

Whole(n) == Frac(n, 1)

FAdd(x, y) == Frac(x.num * y.den + y.num * x.den, x.den * y.den)

FSub(x, y) == Frac(x.num * y.den - y.num * x.den, x.den * y.den)

FMul(x, y) == Frac(x.num * y.num, x.den * y.den)

FLess(x, y) == x.num * y.den < y.num * x.den

FMin(x, y) == IF FLess(y, x) THEN y ELSE x

FMax(x, y) == IF FLess(x, y) THEN y ELSE x

(* health_metrics["overall_health_score"] = max(0, min(100, overall_health)) *)
ClampScore(overall_health) == FMax(Whole(0), FMin(Whole(100), overall_health))

(* overall_health = 100, replaced by half the capacity ratio when known *)
BaseHealth(metrics) ==
    IF IsNumeric(Get(metrics, "capacity_ratio", Str("None")))
    THEN FMul(metrics["capacity_ratio"], Frac(1, 2))
    ELSE Whole(100)

HealthGrade(overall_health) ==
    IF ~ FLess(overall_health, Whole(90)) THEN "Excellent"
    ELSE IF ~ FLess(overall_health, Whole(75)) THEN "Good"
    ELSE IF ~ FLess(overall_health, Whole(60)) THEN "Fair"
    ELSE IF ~ FLess(overall_health, Whole(40)) THEN "Poor"
    ELSE "Critical"

CapacityMetrics(current_cap, design_cap) ==
    IF design_cap > 0
    THEN LET capacity_health == Frac(current_cap * 100, design_cap)
         IN ("capacity_degradation" :> FSub(Whole(100), capacity_health))
            @@ ("capacity_ratio" :> capacity_health)
    ELSE ("capacity_degradation" :> Str("Unknown"))
         @@ ("capacity_ratio" :> Str("Unknown"))

VoltageMetrics(voltage) ==
    IF voltage > 0
    THEN ("voltage_health" :> FMin(Whole(100), Frac(voltage * 100, 4200)))
         @@ ("voltage_status" :>
                Str(IF voltage < 3000 THEN "Critical"
                    ELSE IF voltage < 3500 THEN "Low"
                    ELSE IF voltage > 4300 THEN "Overcharged"
                    ELSE "Normal"))
    ELSE EmptyDict

ThermalMetrics(temperature) ==
    IF temperature > 0
    THEN LET temp_celsius == IF temperature > 100 THEN Frac(temperature, 10)
                             ELSE Whole(temperature)
         IN ("temperature_celsius" :> temp_celsius)
            @@ (IF FLess(Whole(45), temp_celsius)
                THEN ("thermal_status" :> Str("Hot"))
                     @@ ("thermal_penalty" :>
                            FMin(Whole(30),
                                 FMul(FSub(temp_celsius, Whole(45)), Whole(2))))
                ELSE IF FLess(temp_celsius, Whole(0))
                THEN ("thermal_status" :> Str("Cold"))
                     @@ ("thermal_penalty" :>
                            FMin(Whole(20),
                                 FMul(Frac(Abs(temp_celsius.num), temp_celsius.den),
                                      Frac(3, 2))))
                ELSE ("thermal_status" :> Str("Normal"))
                     @@ ("thermal_penalty" :> Whole(0)))
    ELSE EmptyDict

CycleMetrics(cycle_count) ==
    IF cycle_count > 0
    THEN ("cycle_degradation" :> FMin(Whole(50), Frac(cycle_count * 25, 1000)))
         @@ ("estimated_remaining_cycles" :>
                Whole(IF 1000 - cycle_count > 0 THEN 1000 - cycle_count ELSE 0))
         @@ ("cycle_status" :>
                Str(IF cycle_count > 1500 THEN "High"
                    ELSE IF cycle_count > 800 THEN "Medium"
                    ELSE "Low"))
    ELSE EmptyDict

BatteryRecommendations(metrics) ==
    (IF Get(metrics, "thermal_status", Str("None")) = Str("Hot")
     THEN <<"Device running hot - allow cooling">> ELSE <<>>)
    \o (IF Get(metrics, "voltage_status", Str("None")) = Str("Low")
        THEN <<"Low voltage detected - charge immediately">> ELSE <<>>)
    \o (IF Get(metrics, "cycle_status", Str("None")) = Str("High")
        THEN <<"High cycle count - consider battery replacement">> ELSE <<>>)
    \o (IF /\ IsNumeric(Get(metrics, "capacity_ratio", Str("None")))
           /\ FLess(metrics["capacity_ratio"], Whole(70))
        THEN <<"Significant capacity loss detected">> ELSE <<>>)

calculate_battery_health_comprehensive(current_cap, design_cap, cycle_count, voltage, temperature) ==
    LET battery_health == CapacityMetrics(current_cap, design_cap)
                          @@ VoltageMetrics(voltage)
                          @@ ThermalMetrics(temperature)
                          @@ CycleMetrics(cycle_count)
        with_voltage ==
            FAdd(BaseHealth(battery_health),
                 IF IsNumeric(Get(battery_health, "voltage_health", Str("None")))
                 THEN FMul(battery_health["voltage_health"], Frac(1, 5))
                 ELSE FMul(Whole(80), Frac(1, 5)))
        with_thermal ==
            IF "thermal_penalty" \in DOMAIN battery_health
            THEN FSub(with_voltage,
                      FMul(battery_health["thermal_penalty"], Frac(3, 20)))
            ELSE with_voltage
        overall_health ==
            IF "cycle_degradation" \in DOMAIN battery_health
            THEN FSub(with_thermal,
                      FMul(battery_health["cycle_degradation"], Frac(3, 20)))
            ELSE with_thermal
    IN battery_health
       @@ ("overall_health_score" :> ClampScore(overall_health))
       @@ ("health_grade" :> Str(HealthGrade(overall_health)))
       @@ ("recommendations" :> Str(BatteryRecommendations(battery_health)))

(* the readings comprehensive_battery_analysis passes on, each a safe_float *)
BatteryReadings ==
    [ current_cap : {0, 2000, 3600, 4000, 4400},
      design_cap  : {0, 4000},
      cycle_count : {0, 400, 1000, 2400},
      voltage     : {0, 2900, 3400, 3780, 4400},
      temperature : {-50, 0, 30, 48, 350, 480, 700} ]

InitBattery ==
    /\ now = 0
    /\ pc = "battery_input"
    /\ taskState = [t \in TaskNames |-> "unsubmitted"]
    /\ startedAt = [t \in TaskNames |-> 0]
    /\ probe = [t \in TaskNames |-> Nominal]
    /\ results = EmptyDict
    /\ completed_tasks = 0
    /\ deadline = 0
    /\ schedEnd = -1
    /\ continuous_monitoring = TRUE
    /\ spc = "unstarted"
    /\ sEndTime = 0
    /\ sleepUntil = 0
    /\ smetric = 0
    /\ stimestamp = 0
    /\ sticks = 0
    /\ device \in BatteryReadings
    /\ monitoring_data = EmptyDict
    /\ data_points_collected = 0
    /\ joinDeadline = 0
    /\ readSeries = NotRead
    /\ health = NoHealth

(* battery_data["health_analysis"] = health_analysis; the scan stores the  *)
(* probe's return value under "battery"                                    *)
BatteryCall ==
    /\ pc = "battery_input"
    /\ results' = Put(results, "battery",
                      [health_analysis |->
                          calculate_battery_health_comprehensive(
                              device.current_cap, device.design_cap,
                              device.cycle_count, device.voltage,
                              device.temperature)])
    /\ pc' = "battery_done"
    /\ UNCHANGED << now, taskState, startedAt, probe, completed_tasks,
                    deadline, schedEnd, continuous_monitoring, spc, sEndTime,
                    sleepUntil, smetric, stimestamp, sticks, device,
                    monitoring_data, data_points_collected, joinDeadline,
                    readSeries, health >>

NextBattery == BatteryCall

SpecBattery == InitBattery /\ [][NextBattery]_vars

BatteryDone == pc = "battery_done"

health_analysis == results["battery"].health_analysis

(* the claimed term of an input: its value when available, else the default *)
TermOr(key, default) ==
    IF IsNumeric(Get(health_analysis, key, Str("None")))
    THEN health_analysis[key] ELSE default

ClaimedBatteryScore ==
    ClampScore(
        FSub(FSub(FAdd(FMul(Frac(1, 2), TermOr("capacity_ratio", Whole(0))),
                       FMul(Frac(1, 5), TermOr("voltage_health", Whole(80)))),
                  FMul(Frac(3, 20), TermOr("thermal_penalty", Whole(0)))),
             FMul(Frac(3, 20), TermOr("cycle_degradation", Whole(0)))))

(* C21: the battery's overall health score is                              *)
(* clamp(0.5*capacity_ratio + 0.2*voltage_health - 0.15*thermal_penalty    *)
(* - 0.15*cycle_degradation, 0, 100) whichever inputs are available (an    *)
(* unavailable voltage_health counts 80, any other unavailable term        *)
(* nothing), and the grade follows the thresholds 90/75/60/40 on it.       *)
C21_BatteryScoreFormula ==
    BatteryDone =>
        /\ health_analysis["overall_health_score"] = ClaimedBatteryScore
        /\ health_analysis["health_grade"] = Str(HealthGrade(ClaimedBatteryScore))


-----------------------------------------------------------------------------
(* the stress probe's result as the claim counts it *)
StressResult == results["stress_test"]

HasStressResult ==
    /\ HealthDone
    /\ "stress_test" \in DOMAIN results
    /\ ~ IsErrorRecord(StressResult)

FailedCpuSteps ==
    Cardinality({ i \in DOMAIN StressResult.cpu_stress_tests :
                    ~ StressResult.cpu_stress_tests[i].completed })

FailedIoSteps ==
    Cardinality({ i \in DOMAIN StressResult.io_stress_tests :
                    StressResult.io_stress_tests[i].status # "Completed" })

MemoryUnstable == StressResult.memory_stress_test.stability # "Stable"

(* C22: for every result of the stress probe the stability score is        *)
(* max(0, 100 - 15*(failed CPU steps) - 10*(failed I/O steps) - 20 if the  *)
(* memory stress test was unstable); two CPU steps of which one failed,    *)
(* no failed I/O step and a stable memory test score 85 with exactly one   *)
(* warning, which names the count 1.                                       *)
C22_StabilityScore ==
    HasStressResult =>
        /\ health.component_scores["stability"] =
              Max0(100 - 15 * FailedCpuSteps - 10 * FailedIoSteps
                       - (IF MemoryUnstable THEN 20 ELSE 0))
        /\ ( /\ Len(StressResult.cpu_stress_tests) = 2
             /\ FailedCpuSteps = 1
             /\ FailedIoSteps = 0
             /\ ~ MemoryUnstable )
           => /\ health.component_scores["stability"] = 85
              /\ StabilityPart(results).warnings = <<"1 CPU stress test failures">>

C22_Witness ==
    /\ HasStressResult
    /\ Len(StressResult.cpu_stress_tests) = 2
    /\ FailedCpuSteps = 1
    /\ FailedIoSteps = 0
    /\ ~ MemoryUnstable
    /\ health.component_scores["stability"] = 85


-----------------------------------------------------------------------------
(* the scheduler phase: the pool is open and the main thread collects *)
SchedulerPhase == pc = "collect"

(* C23: from the start of the scheduler phase until the scheduler has      *)
(* finished collecting tasks the sampler thread is running: it has not     *)
(* left its loop on its own.                                               *)
C23_SamplerActiveWhileScheduling ==
    SchedulerPhase => spc # "exited"


-----------------------------------------------------------------------------
(* C24: in every reachable state of a scan every key of self.results is a  *)
(* registered task name, and no task name has more than one entry (the     *)
(* keys of the mapping are as many as the tasks that have an entry).       *)
C24_KeysAreTaskNames ==
    /\ DOMAIN results \subseteq TaskNames
    /\ Cardinality(DOMAIN results) =
          Cardinality({ t \in TaskNames : t \in DOMAIN results })


-----------------------------------------------------------------------------
(* calculate_comprehensive_system_health on payloads whose battery and     *)
(* security score fields hold any number, not only what this repository's  *)
(* probes compute                                                          *)

AnyScores == {-20, 0, 100, 150, 1000}

AnyBatteryPayloads ==
    { [health_analysis |-> [overall_health_score |-> n]] : n \in AnyScores }

AnySecurityPayloads == { [security_score |-> n] : n \in AnyScores }

HealthInputsAnyScore ==
    { ResultsOf(b, p, h, sw, se, n, st) :
        b \in AnyBatteryPayloads \cup {Absent},
        p \in {ScanPayload("performance"), Absent},
        h \in {ScanPayload("hardware"), Absent},
        sw \in {ScanPayload("software"), Absent},
        se \in AnySecurityPayloads \cup {Absent},
        n \in {ScanPayload("network"), Absent},
        st \in {ScanPayload("stress_test"), Absent} }

InitHealthAnyScore ==
    /\ now = 0
    /\ pc = "health_input"
    /\ taskState = [t \in TaskNames |-> "unsubmitted"]
    /\ startedAt = [t \in TaskNames |-> 0]
    /\ probe = [t \in TaskNames |-> Nominal]
    /\ results \in HealthInputsAnyScore
    /\ completed_tasks = 0
    /\ deadline = 0
    /\ schedEnd = -1
    /\ continuous_monitoring = TRUE
    /\ spc = "unstarted"
    /\ sEndTime = 0
    /\ sleepUntil = 0
    /\ smetric = 0
    /\ stimestamp = 0
    /\ sticks = 0
    /\ device = EmptyDict
    /\ monitoring_data = EmptyDict
    /\ data_points_collected = 0
    /\ joinDeadline = 0
    /\ readSeries = NotRead
    /\ health = NoHealth

SpecHealthAnyScore == InitHealthAnyScore /\ [][NextHealth]_vars

-----------------------------------------------------------------------------
ReservedScoresInRange ==
    /\ health.component_scores["battery"] \in 0..100
    /\ health.component_scores["security"] \in 0..100

(* C28: with the battery and security scores in [0,100] the composite      *)
(* score never exceeds 645/700*100, the performance score being at most 70 *)
(* and the software score at most 75; without a battery entry the          *)
(* composite score is below 80 and the status neither GOOD nor EXCELLENT.  *)
C28_CompositeCeiling ==
    (HealthDone /\ ReservedScoresInRange) =>
        /\ health.component_scores["performance"] <= 70
        /\ health.component_scores["software"] <= 75
        /\ health.score.num * 700 <= 645 * 100 * health.score.den
        /\ "battery" \notin DOMAIN results =>
              /\ ~ ScoreGE(health.score, 80)
              /\ health.status \notin {"GOOD", "EXCELLENT"}

C28_Witness ==
    /\ HealthDone
    /\ ReservedScoresInRange
    /\ health.score.num * 700 = 645 * 100 * health.score.den
    /\ health.status = "EXCELLENT"


-----------------------------------------------------------------------------
(* the series as the reducer read them *)
ReadNumericCount(m) ==
    Len(SelectSeq(readSeries[m], LAMBDA dp : IsNumeric(dp.value)))

(* C26: the reducer's output holds a metric exactly when the metric's      *)
(* series has at least one numeric sample, and reports as its count the    *)
(* number of numeric samples of the series; a metric with only text        *)
(* samples is left out.                                                    *)
C26_OutputIffNumericSample ==
    ReducerReturned =>
        /\ \A m \in DOMAIN readSeries \cup DOMAIN Stats :
              m \in DOMAIN Stats <=>
                  (m \in DOMAIN readSeries /\ ReadNumericCount(m) > 0)
        /\ \A m \in DOMAIN Stats :
              Stats[m].sample_count = ReadNumericCount(m)

C26_Witness ==
    /\ ReducerReturned
    /\ \E m \in DOMAIN Stats :
          Stats[m].sample_count < Len(readSeries[m])
    /\ \E m \in DOMAIN readSeries :
          /\ readSeries[m] # <<>>
          /\ m \notin DOMAIN Stats


-----------------------------------------------------------------------------
SamplerRunning == spc \in {"check", "probe", "sleep"}

IsPrefix(s, t) == Len(s) <= Len(t) /\ SubSeq(t, 1, Len(s)) = s

(* every series keeps its earlier samples, in place, across the step *)
AppendOnlyStep ==
    \A m \in DOMAIN monitoring_data :
        /\ m \in DOMAIN monitoring_data'
        /\ IsPrefix(monitoring_data[m], monitoring_data'[m])

TimestampsInOrder ==
    \A m \in DOMAIN monitoring_data :
        \A i, j \in DOMAIN monitoring_data[m] :
            i <= j => monitoring_data[m][i].timestamp <= monitoring_data[m][j].timestamp

(* C27: while the sampler runs every step only appends to the end of a     *)
(* metric's series, leaving the earlier samples as they were and where     *)
(* they were, and within every series the timestamps are non-decreasing    *)
(* in insertion order.                                                     *)
C27_SeriesAppendOnly ==
    /\ [][SamplerRunning => AppendOnlyStep]_vars
    /\ [] TimestampsInOrder

C27_Witness ==
    \E m \in DOMAIN monitoring_data :
        /\ Len(monitoring_data[m]) >= 2
        /\ monitoring_data[m][1].timestamp < monitoring_data[m][2].timestamp


-----------------------------------------------------------------------------
(* generate_technical_summary: the share of completed analyses *)

total_analyses == 7

(* len([k for k in self.results.keys() if self.results[k]]) *)
completed_analyses(res) ==
    Cardinality({ k \in DOMAIN res : DOMAIN res[k] # {} })

(* (completed_analyses / total_analyses) * 100, as an exact fraction *)
completion_rate(res) ==
    [num |-> completed_analyses(res) * 100, den |-> total_analyses]

(* C30: at the end of a scan the completion rate, the number of non-empty  *)
(* entries of results over 7 times 100, does not exceed 100.               *)
C30_CompletionRateAtMost100 ==
    pc = "done" =>
        completion_rate(results).num <= 100 * completion_rate(results).den


-----------------------------------------------------------------------------
(* the scan with a main thread and pool workers that are scheduled and a    *)
(* clock that advances; nothing is assumed of the daemon sampler thread     *)
MainThread ==
    \/ StartScan
    \/ \E t \in TaskNames : Collect(t)
    \/ CollectDone
    \/ CollectTimeout
    \/ UnwindDone
    \/ StopSampler
    \/ JoinReturn
    \/ ReduceSkip
    \/ ReduceBegin
    \/ ReduceEnd
    \/ ExtendedAnalysis
    \/ GenerateReport

PoolWorkers == \E t \in TaskNames : StartTask(t) \/ TaskReturn(t) \/ TaskRaise(t)

SpecLive ==
    /\ Init
    /\ [][Next]_vars
    /\ WF_vars(MainThread)
    /\ WF_vars(PoolWorkers)
    /\ WF_vars(Tick)

(* every probe invocation comes back, by returning or by raising *)
EveryProbeTerminates == \A t \in TaskNames : probe[t].outcome # "hang"

(* C29: if every probe invocation and every device command terminates, the *)
(* scan terminates: the scheduler block and the sampling loops exit and    *)
(* run_comprehensive_scan returns its results.                             *)
C29_ScanReturns ==
    EveryProbeTerminates => <>(pc = "done")

=============================================================================
